---- MODULE Spec2Model ----
(***************************************************************************)
(* A model of pymongo/write_concern.py: the WriteConcern value type, its   *)
(* validating constructor, its read accessors, its equality operators and  *)
(* the module constant DEFAULT_WRITE_CONCERN.                              *)
(*                                                                         *)
(* Python values are records [t, n, s]: t is the run-time type, n the      *)
(* numeric value (ints, bools and integer-valued floats), s the text of a  *)
(* str.  A dict is a sequence of [k, v] entries in insertion order, kept   *)
(* in a heap of dict objects so that aliasing and copying are observable.  *)
(***************************************************************************)
EXTENDS Integers, Sequences, FiniteSets, TLC

\* Largest integer offered to the constructor (integers range over -1..MaxInt).
MaxInt == 2
\* Most references to returned documents a caller holds at once.
MaxCopies == 2
\* Most mutations a caller applies to the documents it holds.
MaxMutations == 2

VARIABLES
    heap,     \* the dict objects alive: address -> sequence of [k, v] entries
    objs,     \* name -> <<>> (unbound) or <<instance>> (a WriteConcern)
    args,     \* the arguments of the constructor call in progress or last made
    raised,   \* the exception propagating out of the constructor ("" if none)
    copies,   \* addresses of the documents the caller got from .document
    nmut,     \* number of mutations the caller applied to those documents
    ret       \* the last accessor / operator call and what it returned

vars == <<heap, objs, args, raised, copies, nmut, ret>>

----------------------------------------------------------------------------
(* Python values *)

PyNone == [t |-> "none", n |-> 0, s |-> ""]
PyInt(i) == [t |-> "int", n |-> i, s |-> ""]
PyBool(b) == [t |-> "bool", n |-> IF b THEN 1 ELSE 0, s |-> ""]
PyStr(x) == [t |-> "str", n |-> 0, s |-> x]
\* the float i.0
PyFloat(i) == [t |-> "float", n |-> i, s |-> ""]
PyDictRef(a) == [t |-> "dict", n |-> a, s |-> ""]
PyNotImplemented == [t |-> "NotImplementedType", n |-> 0, s |-> ""]

PyTrue == PyBool(TRUE)
PyFalse == PyBool(FALSE)

IsNone(x) == x.t = "none"
\* isinstance(x, int): bool is a subclass of int
IsInstanceInt(x) == x.t \in {"int", "bool"}
IsInstanceBool(x) == x.t = "bool"
IsInstanceStr(x) == x.t = "str"
IsNumber(x) == x.t \in {"int", "bool", "float"}

\* x == y
PyEq(x, y) ==
    IF IsNumber(x) /\ IsNumber(y) THEN x.n = y.n
    ELSE IF IsInstanceStr(x) /\ IsInstanceStr(y) THEN x.s = y.s
    ELSE IF x.t = "dict" /\ y.t = "dict" THEN x.n = y.n
    ELSE x.t = y.t /\ x.t \in {"none", "NotImplementedType"}

\* bool(x)
Truthy(x) ==
    IF IsNumber(x) THEN x.n # 0
    ELSE IF IsInstanceStr(x) THEN x.s # ""
    ELSE x.t \notin {"none"}

\* x is True
IsTrue(x) == x.t = "bool" /\ x.n = 1

\* "%s" % x
PyFormat(x) ==
    IF x.t = "bool" THEN (IF x.n = 1 THEN "True" ELSE "False")
    ELSE IF x.t = "int" THEN ToString(x.n)
    ELSE IF x.t = "float" THEN ToString(x.n) \o ".0"
    ELSE IF x.t = "str" THEN x.s
    ELSE "None"

----------------------------------------------------------------------------
(* dict: a sequence of entries [k |-> key, v |-> value], insertion ordered *)

EmptyDict == <<>>
DictKeys(d) == {d[i].k : i \in DOMAIN d}
DictHas(d, k) == k \in DictKeys(d)
DictGet(d, k) == d[CHOOSE i \in DOMAIN d : d[i].k = k].v
\* d[k] = v: an existing key keeps its position, a new key goes last
DictSetItem(d, k, v) ==
    IF DictHas(d, k)
    THEN [i \in DOMAIN d |-> IF d[i].k = k THEN [k |-> k, v |-> v] ELSE d[i]]
    ELSE Append(d, [k |-> k, v |-> v])
\* del d[k]
DictDelItem(d, k) ==
    LET Keep(e) == e.k # k IN SelectSeq(d, Keep)
\* d1 == d2: same length, every key of d1 in d2 with an equal value
DictEq(d1, d2) ==
    /\ Len(d1) = Len(d2)
    /\ \A i \in DOMAIN d1 :
          DictHas(d2, d1[i].k) /\ PyEq(d1[i].v, DictGet(d2, d1[i].k))
\* not d
DictIsEmpty(d) == Len(d) = 0

\* The lowest free address of heap h.
Alloc(h) == CHOOSE a \in 1..(Cardinality(DOMAIN h) + 1) : a \notin DOMAIN h

\* d.copy(): a new dict object with the entries of the dict at address a
DictCopy(h, a) ==
    LET new == Alloc(h) IN [heap |-> h @@ (new :> h[a]), ref |-> new]

----------------------------------------------------------------------------
(* WriteConcern.__init__, statement by statement.  A frame holds the       *)
(* exception raised so far ("" if none) and the two fields being built;    *)
(* once an exception is raised the remaining statements are skipped.       *)

\* self.__document = {}; self.__acknowledged = True
Frame0 == [raised |-> "", document |-> EmptyDict, acknowledged |-> TRUE]

Raise(f, kind) == [f EXCEPT !.raised = kind]

\* (variant: the test wtimeout < 0 left out)
CheckWtimeout_NoRange(f, wtimeout) ==
    IF f.raised # "" \/ IsNone(wtimeout) THEN f
    ELSE IF ~IsInstanceInt(wtimeout) THEN Raise(f, "TypeError")
    ELSE [f EXCEPT !.document = DictSetItem(@, "wtimeout", wtimeout)]

\* if wtimeout is not None: ...
CheckWtimeout(f, wtimeout) ==
    IF f.raised # "" \/ IsNone(wtimeout) THEN f
    ELSE IF ~IsInstanceInt(wtimeout) THEN Raise(f, "TypeError")
    ELSE IF wtimeout.n < 0 THEN Raise(f, "ValueError")
    ELSE [f EXCEPT !.document = DictSetItem(@, "wtimeout", wtimeout)]

\* (variant: "if j:" instead of "if j is not None:")
CheckJ_Truthy(f, j) ==
    IF f.raised # "" \/ ~Truthy(j) THEN f
    ELSE IF ~IsInstanceBool(j) THEN Raise(f, "TypeError")
    ELSE [f EXCEPT !.document = DictSetItem(@, "j", j)]

\* if j is not None: ...
CheckJ(f, j) ==
    IF f.raised # "" \/ IsNone(j) THEN f
    ELSE IF ~IsInstanceBool(j) THEN Raise(f, "TypeError")
    ELSE [f EXCEPT !.document = DictSetItem(@, "j", j)]

\* (variant: the j/fsync conflict tested before the type of fsync)
CheckFsync_ConflictFirst(f, j, fsync) ==
    IF f.raised # "" \/ IsNone(fsync) THEN f
    ELSE IF Truthy(j) /\ Truthy(fsync) THEN Raise(f, "ConfigurationError")
    ELSE IF ~IsInstanceBool(fsync) THEN Raise(f, "TypeError")
    ELSE [f EXCEPT !.document = DictSetItem(@, "fsync", fsync)]

\* if fsync is not None: ...
CheckFsync(f, j, fsync) ==
    IF f.raised # "" \/ IsNone(fsync) THEN f
    ELSE IF ~IsInstanceBool(fsync) THEN Raise(f, "TypeError")
    ELSE IF Truthy(j) /\ Truthy(fsync) THEN Raise(f, "ConfigurationError")
    ELSE [f EXCEPT !.document = DictSetItem(@, "fsync", fsync)]

\* if w == 0 and j is True: raise ConfigurationError
CheckW0J(f, w, j) ==
    IF f.raised # "" THEN f
    ELSE IF PyEq(w, PyInt(0)) /\ IsTrue(j) THEN Raise(f, "ConfigurationError")
    ELSE f

\* (variant: self.__acknowledged = w > 0 left out)
CheckW_AckAlways(f, w) ==
    IF f.raised # "" \/ IsNone(w) THEN f
    ELSE IF IsInstanceInt(w)
         THEN IF w.n < 0 THEN Raise(f, "ValueError")
              ELSE [f EXCEPT !.document = DictSetItem(@, "w", w)]
    ELSE IF ~IsInstanceStr(w) THEN Raise(f, "TypeError")
    ELSE [f EXCEPT !.document = DictSetItem(@, "w", w)]

\* (variant: w = 0 refused once any other option is recorded)
CheckW_ZeroAlone(f, w) ==
    IF f.raised # "" \/ IsNone(w) THEN f
    ELSE IF IsInstanceInt(w)
         THEN IF w.n < 0 THEN Raise(f, "ValueError")
              ELSE IF w.n = 0 /\ ~DictIsEmpty(f.document)
                   THEN Raise(f, "ConfigurationError")
              ELSE [f EXCEPT !.acknowledged = (w.n > 0),
                             !.document = DictSetItem(@, "w", w)]
    ELSE IF ~IsInstanceStr(w) THEN Raise(f, "TypeError")
    ELSE [f EXCEPT !.document = DictSetItem(@, "w", w)]

\* if w is not None: ...
CheckW(f, w) ==
    IF f.raised # "" \/ IsNone(w) THEN f
    ELSE IF IsInstanceInt(w)
         THEN IF w.n < 0 THEN Raise(f, "ValueError")
              ELSE [f EXCEPT !.acknowledged = (w.n > 0),
                             !.document = DictSetItem(@, "w", w)]
    ELSE IF ~IsInstanceStr(w) THEN Raise(f, "TypeError")
    ELSE [f EXCEPT !.document = DictSetItem(@, "w", w)]

\* (variant: the default decided by w alone)
ServerDefault_NoW(document) == ~DictHas(document, "w")

\* self.__server_default = not self.__document
ServerDefault(document) == DictIsEmpty(document)

\* (variant: w validated and recorded first)
WriteConcern__init__WFirst(w, wtimeout, j, fsync) ==
    LET f1 == CheckW(CheckW0J(Frame0, w, j), w)
        f2 == CheckWtimeout(f1, wtimeout)
        f3 == CheckJ(f2, j)
        f4 == CheckFsync(f3, j, fsync)
    IN  [raised |-> f4.raised,
         document |-> f4.document,
         acknowledged |-> f4.acknowledged,
         server_default |-> ServerDefault(f4.document)]

\* WriteConcern(w, wtimeout, j, fsync): the exception raised, or the fields
\* of the new instance.
WriteConcern__init__(w, wtimeout, j, fsync) ==
    LET f1 == CheckWtimeout(Frame0, wtimeout)
        f2 == CheckJ(f1, j)
        f3 == CheckFsync(f2, j, fsync)
        f4 == CheckW0J(f3, w, j)
        f5 == CheckW(f4, w)
    IN  [raised |-> f5.raised,
         document |-> f5.document,
         acknowledged |-> f5.acknowledged,
         server_default |-> ServerDefault(f5.document)]

----------------------------------------------------------------------------
(* The instance and its methods.  An instance is the record of its three   *)
(* slots; __document holds the address of its dict.                        *)

Instance(addr, r) ==
    [cls |-> "WriteConcern", document |-> addr,
     acknowledged |-> r.acknowledged, server_default |-> r.server_default]

\* an object that is not a WriteConcern
Foreign == [cls |-> "object"]

\* @property is_server_default
is_server_default(self) == self.server_default

\* (variant: the internal dict returned, not a copy)
document_NoCopy(h, self) == [heap |-> h, ref |-> self.document]

\* @property document: [heap, ref], the heap with the copy and its address
document(h, self) == DictCopy(h, self.document)

\* @property acknowledged
acknowledged(self) == self.acknowledged

\* ", ".join("%s=%s" % kvt for kvt in d.items())
RECURSIVE JoinItems(_)
JoinItems(d) ==
    IF Len(d) = 0 THEN ""
    ELSE LET kv == d[1].k \o "=" \o PyFormat(d[1].v)
         IN  IF Len(d) = 1 THEN kv ELSE kv \o ", " \o JoinItems(Tail(d))

WriteConcern__repr__(h, self) ==
    "WriteConcern(" \o JoinItems(h[self.document]) \o ")"

\* (variant: only the keys compared)
WriteConcern__eq__KeysOnly(h, self, other) ==
    IF other.cls = "WriteConcern"
    THEN LET c == document(h, other)
         IN  PyBool(DictKeys(h[self.document]) = DictKeys(c.heap[c.ref]))
    ELSE PyNotImplemented

WriteConcern__eq__(h, self, other) ==
    IF other.cls = "WriteConcern"
    THEN LET c == document(h, other)
         IN  PyBool(DictEq(h[self.document], c.heap[c.ref]))
    ELSE PyNotImplemented

WriteConcern__ne__(h, self, other) ==
    IF other.cls = "WriteConcern"
    THEN LET c == document(h, other)
         IN  PyBool(~DictEq(h[self.document], c.heap[c.ref]))
    ELSE PyNotImplemented

----------------------------------------------------------------------------
(* The program's state and the calls a client makes.                       *)

DEFAULT == "DEFAULT_WRITE_CONCERN"
\* the names a client binds instances to, in the order it binds them
Locals == <<"a", "b", "c">>
Names == {DEFAULT} \cup {Locals[i] : i \in DOMAIN Locals}

Bound(x) == objs[x] # <<>>
Obj(x) == objs[x][1]
\* what y names in a comparison: a bound instance, or some other object
Operand(y) == IF y \in Names THEN Obj(y) ELSE Foreign

NoRet == [op |-> "", self |-> "", other |-> "", idx |-> 0, val |-> PyNone]
Ret(op, x, y, i, v) == [op |-> op, self |-> x, other |-> y, idx |-> i, val |-> v]

\* the values offered for each constructor argument
PyValues ==
    {PyNone, PyTrue, PyFalse, PyStr("majority"), PyFloat(0)}
        \cup {PyInt(i) : i \in -1..MaxInt}
AllArgs == [w : PyValues, wtimeout : PyValues, j : PyValues, fsync : PyValues]
\* a smaller choice, for the runs that hold several documents
SmallArgs ==
    [w : {PyNone, PyInt(0), PyInt(1), PyTrue, PyStr("majority")},
     wtimeout : {PyNone, PyInt(1)}, j : {PyNone, PyTrue}, fsync : {PyNone}]
\* a smaller choice still, for the runs that hold three instances
EqArgs ==
    [w : {PyNone, PyInt(0), PyInt(1), PyTrue, PyStr("majority")},
     wtimeout : {PyNone}, j : {PyNone, PyTrue}, fsync : {PyNone}]
\* what a client writes into a document it holds
MutKeys == {"w", "x"}
MutValues == {PyInt(0)}

\* Module import: DEFAULT_WRITE_CONCERN = WriteConcern()
Init ==
    LET r == WriteConcern__init__(PyNone, PyNone, PyNone, PyNone)
        addr == Alloc(<<>>)
    IN  /\ heap = (addr :> r.document)
        /\ objs = [x \in Names |->
                      IF x = DEFAULT THEN <<Instance(addr, r)>> ELSE <<>>]
        /\ args = <<>>
        /\ raised = ""
        /\ copies = <<>>
        /\ nmut = 0
        /\ ret = NoRet

\* x = WriteConcern(w=a.w, wtimeout=a.wtimeout, j=a.j, fsync=a.fsync),
\* for some arguments a of A
New(x, A) ==
    /\ raised = ""
    /\ \E i \in DOMAIN Locals :
          /\ Locals[i] = x
          /\ ~Bound(x)
          /\ \A k \in 1..(i - 1) : Bound(Locals[k])
    /\ \E a \in A :
          LET r == WriteConcern__init__(a.w, a.wtimeout, a.j, a.fsync)
              addr == Alloc(heap)
          IN  /\ args' = <<a>>
              /\ raised' = r.raised
              /\ IF r.raised = ""
                 THEN /\ heap' = heap @@ (addr :> r.document)
                      /\ objs' = [objs EXCEPT ![x] = <<Instance(addr, r)>>]
                 ELSE UNCHANGED <<heap, objs>>
    /\ ret' = NoRet
    /\ UNCHANGED <<copies, nmut>>

\* the caller catches the exception the constructor raised
Except ==
    /\ raised # ""
    /\ raised' = ""
    /\ args' = <<>>
    /\ UNCHANGED <<heap, objs, copies, nmut, ret>>

\* x.acknowledged
GetAcknowledged(x) ==
    /\ raised = "" /\ Bound(x)
    /\ ret' = Ret("acknowledged", x, "", 0, PyBool(acknowledged(Obj(x))))
    /\ UNCHANGED <<heap, objs, args, raised, copies, nmut>>

\* x.is_server_default
GetIsServerDefault(x) ==
    /\ raised = "" /\ Bound(x)
    /\ ret' = Ret("is_server_default", x, "", 0,
                  PyBool(is_server_default(Obj(x))))
    /\ UNCHANGED <<heap, objs, args, raised, copies, nmut>>

\* d = x.document: the caller keeps the returned dict
GetDocument(x) ==
    /\ raised = "" /\ Bound(x)
    /\ Len(copies) < MaxCopies
    /\ LET c == document(heap, Obj(x))
       IN  /\ heap' = c.heap
           /\ copies' = Append(copies, c.ref)
           /\ ret' = Ret("document", x, "", Len(copies) + 1, PyDictRef(c.ref))
    /\ UNCHANGED <<objs, args, raised, nmut>>

\* repr(x)
Repr(x) ==
    /\ raised = "" /\ Bound(x)
    /\ ret' = Ret("__repr__", x, "", 0, PyStr(WriteConcern__repr__(heap, Obj(x))))
    /\ UNCHANGED <<heap, objs, args, raised, copies, nmut>>

\* x.__eq__(y)
Eq(x, y) ==
    /\ raised = "" /\ Bound(x) /\ (y \in Names => Bound(y))
    /\ ret' = Ret("__eq__", x, y, 0, WriteConcern__eq__(heap, Obj(x), Operand(y)))
    /\ UNCHANGED <<heap, objs, args, raised, copies, nmut>>

\* x.__ne__(y)
Ne(x, y) ==
    /\ raised = "" /\ Bound(x) /\ (y \in Names => Bound(y))
    /\ ret' = Ret("__ne__", x, y, 0, WriteConcern__ne__(heap, Obj(x), Operand(y)))
    /\ UNCHANGED <<heap, objs, args, raised, copies, nmut>>

\* d[k] = v on the i-th document the caller holds
SetItem(i, k, v) ==
    /\ i \in DOMAIN copies /\ nmut < MaxMutations
    /\ heap' = [heap EXCEPT ![copies[i]] = DictSetItem(@, k, v)]
    /\ nmut' = nmut + 1
    /\ ret' = Ret("__setitem__", "", "", i, PyNone)
    /\ UNCHANGED <<objs, args, raised, copies>>

\* del d[k] on the i-th document the caller holds
DelItem(i, k) ==
    /\ i \in DOMAIN copies /\ nmut < MaxMutations
    /\ DictHas(heap[copies[i]], k)
    /\ heap' = [heap EXCEPT ![copies[i]] = DictDelItem(@, k)]
    /\ nmut' = nmut + 1
    /\ ret' = Ret("__delitem__", "", "", i, PyNone)
    /\ UNCHANGED <<objs, args, raised, copies>>

\* del x, and the documents read so far: back to the state after import
Release(x) ==
    /\ raised = "" /\ x # DEFAULT /\ Bound(x)
    /\ \A y \in Names \ {DEFAULT, x} : ~Bound(y)
    /\ LET dead == {Obj(x).document} \cup {copies[i] : i \in DOMAIN copies}
       IN  heap' = [p \in DOMAIN heap \ dead |-> heap[p]]
    /\ objs' = [objs EXCEPT ![x] = <<>>]
    /\ args' = <<>>
    /\ copies' = <<>>
    /\ nmut' = 0
    /\ ret' = NoRet
    /\ UNCHANGED raised

\* One instance built from every combination of argument values, and read.
Next ==
    \/ New("a", AllArgs)
    \/ Except
    \/ \E x \in {DEFAULT, "a"} : GetAcknowledged(x)
    \/ \E x \in {DEFAULT, "a"} : GetIsServerDefault(x)
    \/ \E x \in {DEFAULT, "a"} : GetDocument(x)
    \/ \E x \in {DEFAULT, "a"} : Repr(x)
    \/ Release("a")

Spec == Init /\ [][Next]_vars

\* One instance, whose documents the caller reads, keeps and mutates.
NextCopy ==
    \/ New("a", SmallArgs)
    \/ Except
    \/ GetAcknowledged("a")
    \/ GetIsServerDefault("a")
    \/ GetDocument("a")
    \/ \E i \in 1..MaxCopies, k \in MutKeys, v \in MutValues : SetItem(i, k, v)
    \/ \E i \in 1..MaxCopies, k \in MutKeys : DelItem(i, k)
    \/ Release("a")

SpecCopy == Init /\ [][NextCopy]_vars

\* Three instances, compared with each other, the constant and a stranger.
NextEq ==
    \/ \E i \in DOMAIN Locals : New(Locals[i], EqArgs)
    \/ Except
    \/ \E x \in Names, y \in Names \cup {"foreign"} : Eq(x, y)
    \/ \E x \in Names, y \in Names \cup {"foreign"} : Ne(x, y)

SpecEq == Init /\ [][NextEq]_vars

----------------------------------------------------------------------------
(* Vocabulary of the properties.  In Spec and SpecCopy the only local is   *)
(* "a", and args holds the arguments of the call that built it.            *)

Called == args # <<>>
A == args[1]
Built == Called /\ raised = "" /\ Bound("a")
DocOf(x) == heap[Obj(x).document]
DocA == DocOf("a")
Params == {"w", "wtimeout", "j", "fsync"}
Supplied == {p \in Params : ~IsNone(A[p])}
\* the integer 0 (Python's False is the int 0 as well: False == 0)
IsIntZero(x) == IsInstanceInt(x) /\ x.n = 0

\* The validation rules in their check order, each read on the arguments
\* alone, and the kind of error each one gives.
RuleKind ==
    <<"TypeError", "ValueError", "TypeError", "TypeError",
      "ConfigurationError", "ConfigurationError", "ValueError", "TypeError">>
Violates(a, i) ==
    CASE i = 1 -> ~IsNone(a.wtimeout) /\ ~IsInstanceInt(a.wtimeout)
      [] i = 2 -> IsInstanceInt(a.wtimeout) /\ a.wtimeout.n < 0
      [] i = 3 -> ~IsNone(a.j) /\ ~IsInstanceBool(a.j)
      [] i = 4 -> ~IsNone(a.fsync) /\ ~IsInstanceBool(a.fsync)
      [] i = 5 -> IsTrue(a.j) /\ IsTrue(a.fsync)
      [] i = 6 -> PyEq(a.w, PyInt(0)) /\ IsTrue(a.j)
      [] i = 7 -> IsInstanceInt(a.w) /\ a.w.n < 0
      [] i = 8 -> ~IsNone(a.w) /\ ~IsInstanceInt(a.w) /\ ~IsInstanceStr(a.w)
Violated(a) == {i \in DOMAIN RuleKind : Violates(a, i)}
FirstViolated(a) == CHOOSE i \in Violated(a) : \A k \in Violated(a) : i <= k

----------------------------------------------------------------------------
\* C1: for every successfully constructed WriteConcern, acknowledged is
\* false if and only if w was supplied as the integer 0, whatever wtimeout,
\* j and fsync are; it is true when w is absent, a positive integer or a
\* string, and the acknowledged property returns that value.
C1_AcknowledgedIffWNotZero ==
    Built =>
        /\ (Obj("a").acknowledged = FALSE) <=> IsIntZero(A.w)
        /\ IsNone(A.w) => Obj("a").acknowledged
        /\ (IsInstanceInt(A.w) /\ A.w.n > 0) => Obj("a").acknowledged
        /\ IsInstanceStr(A.w) => Obj("a").acknowledged
        /\ (ret.op = "acknowledged" /\ ret.self = "a")
              => ret.val = PyBool(~IsIntZero(A.w))

\* w = 0 with a timeout and fsync supplied: read as unacknowledged
C1_Witness ==
    /\ Built /\ A.w = PyInt(0)
    /\ ~IsNone(A.wtimeout) /\ ~IsNone(A.fsync)
    /\ ret.op = "acknowledged" /\ ret.self = "a" /\ ret.val = PyFalse

\* C2: w=0 cannot be used with other write concern options: a call with
\* w=0 and any of wtimeout, j, fsync supplied fails, so no instance has w=0
\* in its document alongside another key.
C2_WZeroExcludesOtherOptions ==
    /\ (Called /\ IsIntZero(A.w) /\ Supplied # {"w"}) => raised # ""
    /\ Built => ((DictHas(DocA, "w") /\ IsIntZero(DictGet(DocA, "w")))
                    => DictKeys(DocA) = {"w"})

\* C3: when the arguments violate one or more validation rules, the call
\* fails with the error kind of the first violated rule in the check order,
\* and no instance is produced.
C3_FirstViolatedRuleWins ==
    (Called /\ Violated(A) # {}) =>
        /\ raised = RuleKind[FirstViolated(A)]
        /\ ~Bound("a")

\* four rules violated, of three kinds: the earliest one's kind is raised
C3_Witness ==
    /\ Called
    /\ A.wtimeout = PyInt(-1) /\ A.j = PyTrue /\ A.fsync = PyTrue
    /\ A.w = PyFloat(0)
    /\ Violated(A) = {2, 5, 6, 8}
    /\ raised = "ValueError"

\* C4: the document's key set is exactly the set of supplied parameters and
\* each key maps to the supplied value unchanged (a supplied False is
\* recorded); the mapping the document property returns is that mapping.
C4_DocumentIsSuppliedFields ==
    Built =>
        /\ DictKeys(DocA) = Supplied
        /\ Len(DocA) = Cardinality(Supplied)
        /\ \A p \in Supplied : DictGet(DocA, p) = A[p]
        /\ (ret.op = "document" /\ ret.self = "a") => heap[ret.val.n] = DocA

\* j=False and fsync=False supplied, and the document read
C4_Witness ==
    /\ Built /\ A.j = PyFalse /\ A.fsync = PyFalse /\ IsNone(A.w)
    /\ ret.op = "document" /\ ret.self = "a"
    /\ DictKeys(heap[ret.val.n]) = {"j", "fsync"}

\* C6: for every instance, the shared constant included, is_server_default
\* is true iff the document is empty, iff no parameter was supplied; the
\* constant has an empty document, is_server_default true, acknowledged true.
C6_ServerDefaultIffEmpty ==
    /\ \A x \in {DEFAULT, "a"} :
          Bound(x) =>
             /\ is_server_default(Obj(x)) <=> DictIsEmpty(DocOf(x))
             /\ (ret.op = "is_server_default" /\ ret.self = x)
                   => ret.val = PyBool(DictIsEmpty(DocOf(x)))
    /\ Built => (is_server_default(Obj("a")) <=> Supplied = {})
    /\ Bound(DEFAULT)
    /\ DocOf(DEFAULT) = EmptyDict
    /\ is_server_default(Obj(DEFAULT))
    /\ acknowledged(Obj(DEFAULT))

\* an instance with only fsync=False supplied reads as not the default
C6_Witness ==
    /\ Built /\ Supplied = {"fsync"} /\ A.fsync = PyFalse
    /\ ret.op = "is_server_default" /\ ret.self = "a" /\ ret.val = PyFalse

\* C8: every constructed WriteConcern satisfies the four data-model
\* invariants in its document: wtimeout, if present, is an integer >= 0; j
\* and fsync are not both true; w, if an integer, is >= 0; w == 0 never
\* occurs together with j == true.
C8_DataModelInvariants ==
    \A x \in {DEFAULT, "a"} :
        Bound(x) =>
            LET d == DocOf(x)
                Is(k, v) == DictHas(d, k) /\ PyEq(DictGet(d, k), v)
            IN  /\ DictHas(d, "wtimeout") =>
                      /\ IsInstanceInt(DictGet(d, "wtimeout"))
                      /\ DictGet(d, "wtimeout").n >= 0
                /\ ~(Is("j", PyTrue) /\ Is("fsync", PyTrue))
                /\ (DictHas(d, "w") /\ IsInstanceInt(DictGet(d, "w")))
                      => DictGet(d, "w").n >= 0
                /\ ~(Is("w", PyInt(0)) /\ Is("j", PyTrue))

\* all four fields recorded, each at the edge of its rule
C8_Witness ==
    /\ Built
    /\ DocA = <<[k |-> "wtimeout", v |-> PyInt(0)], [k |-> "j", v |-> PyFalse],
                [k |-> "fsync", v |-> PyTrue], [k |-> "w", v |-> PyInt(0)]>>

\* C9: construction fails only when one of the listed rules is violated;
\* w=0 with fsync=true (j absent or false) is accepted, giving a document
\* with fsync=true and w=0 and acknowledged false, while w=0 with j=true is
\* rejected, with a configuration error unless an earlier rule fails first.
C9_WZeroWithFsyncAccepted ==
    Called =>
        /\ raised # "" => Violated(A) # {}
        /\ (raised = "" /\ Violated(A) = {}) => Bound("a")
        /\ (/\ A.w = PyInt(0) /\ A.fsync = PyTrue
            /\ A.j \in {PyNone, PyFalse}
            /\ Violated(A) \cap {1, 2} = {})
              => /\ Built
                 /\ DictGet(DocA, "fsync") = PyTrue
                 /\ DictGet(DocA, "w") = PyInt(0)
                 /\ acknowledged(Obj("a")) = FALSE
        /\ (A.w = PyInt(0) /\ A.j = PyTrue)
              => /\ raised # ""
                 /\ Violated(A) \cap {1, 2, 4} = {}
                       => raised = "ConfigurationError"

\* w=0 with fsync=True and j=False built, and read as unacknowledged
C9_Witness ==
    /\ Built /\ A.w = PyInt(0) /\ A.fsync = PyTrue /\ A.j = PyFalse
    /\ ret.op = "acknowledged" /\ ret.self = "a" /\ ret.val = PyFalse

\* the keys in validation order
KeyOrder == <<"wtimeout", "j", "fsync", "w">>
RECURSIVE ExpectedRepr(_)
ExpectedRepr(ks) ==
    IF Len(ks) = 0 THEN ""
    ELSE LET rest == ExpectedRepr(Tail(ks))
             kv == Head(ks) \o "=" \o PyFormat(A[Head(ks)])
         IN  IF IsNone(A[Head(ks)]) THEN rest
             ELSE IF rest = "" THEN kv
             ELSE kv \o ", " \o rest

\* C10: the document lists its keys in validation order, wtimeout before j
\* before fsync before w, each only if supplied; the textual representation
\* lists the same key=value pairs in that order.
C10_KeysInValidationOrder ==
    Built =>
        /\ [i \in DOMAIN DocA |-> DocA[i].k]
              = SelectSeq(KeyOrder, LAMBDA k : k \in Supplied)
        /\ (ret.op = "__repr__" /\ ret.self = "a")
              => ret.val = PyStr("WriteConcern(" \o ExpectedRepr(KeyOrder) \o ")")

\* all four supplied: the representation in validation order
C10_Witness ==
    /\ Built /\ ret.op = "__repr__" /\ ret.self = "a"
    /\ ret.val = PyStr("WriteConcern(wtimeout=1, j=False, fsync=True, w=majority)")

----------------------------------------------------------------------------
(* Immutability, under SpecCopy.                                           *)

\* what the constructor fixed for "a"
Fixed == WriteConcern__init__(A.w, A.wtimeout, A.j, A.fsync)
Mutation == {"__setitem__", "__delitem__"}

C5_InstanceUnchanged ==
    Built =>
        /\ DocA = Fixed.document
        /\ Obj("a").acknowledged = Fixed.acknowledged
        /\ Obj("a").server_default = Fixed.server_default
        /\ ret.op = "document" => heap[ret.val.n] = Fixed.document
        /\ ret.op = "acknowledged" => ret.val = PyBool(Fixed.acknowledged)
        /\ ret.op = "is_server_default" => ret.val = PyBool(Fixed.server_default)

C5_OtherCopiesUnchanged ==
    (nmut' = nmut + 1 /\ ret'.op \in Mutation) =>
        \A i \in DOMAIN copies :
            i # ret'.idx => heap'[copies[i]] = heap[copies[i]]

\* C5: after any sequence of document reads and mutations of the returned
\* copies, the instance is unchanged: every later read of document returns
\* the mapping fixed at construction, acknowledged and is_server_default
\* return their construction-time values, and mutating one returned copy
\* never changes another returned copy.
C5_CopiesAreIndependent ==
    []C5_InstanceUnchanged /\ [][C5_OtherCopiesUnchanged]_vars

\* the first copy was mutated as often as allowed, and a later read still
\* returned the mapping fixed at construction
C5_Witness ==
    /\ Built /\ nmut = MaxMutations /\ Len(copies) >= 2
    /\ heap[copies[1]] # Fixed.document
    /\ ret.op = "document" /\ ret.idx = Len(copies)
    /\ heap[copies[Len(copies)]] = Fixed.document
    /\ Fixed.document # EmptyDict

----------------------------------------------------------------------------
(* Equality, under SpecEq.                                                 *)

\* equal as mappings: the same keys, each with an equal value; the order of
\* the entries does not count
SameMapping(d1, d2) ==
    /\ DictKeys(d1) = DictKeys(d2)
    /\ \A k \in DictKeys(d1) : PyEq(DictGet(d1, k), DictGet(d2, k))

BoundNames == {x \in Names : Bound(x)}
IsEq(x, y) == WriteConcern__eq__(heap, Obj(x), Obj(y)) = PyTrue
IsNe(x, y) == WriteConcern__ne__(heap, Obj(x), Obj(y)) = PyTrue

\* C7: equality between WriteConcern instances is reflexive, symmetric and
\* transitive; a == b holds exactly when the documents of a and b are equal
\* as mappings; a != b is the exact negation of a == b.
C7_EqualityMirrorsDocuments ==
    /\ \A x \in BoundNames : IsEq(x, x)
    /\ \A x, y \in BoundNames : IsEq(x, y) => IsEq(y, x)
    /\ \A x, y, z \in BoundNames : (IsEq(x, y) /\ IsEq(y, z)) => IsEq(x, z)
    /\ \A x, y \in BoundNames :
          /\ IsEq(x, y) <=> SameMapping(DocOf(x), DocOf(y))
          /\ IsNe(x, y) <=> ~IsEq(x, y)
          /\ WriteConcern__eq__(heap, Obj(x), Obj(y)) \in {PyTrue, PyFalse}
          /\ WriteConcern__ne__(heap, Obj(x), Obj(y)) \in {PyTrue, PyFalse}
    /\ (ret.op = "__eq__" /\ ret.other \in Names)
          => ret.val = PyBool(SameMapping(DocOf(ret.self), DocOf(ret.other)))
    /\ (ret.op = "__ne__" /\ ret.other \in Names)
          => ret.val = PyBool(~SameMapping(DocOf(ret.self), DocOf(ret.other)))

\* three instances with the same two keys, a == c found true, while another
\* pair of the four instances differs
C7_Witness ==
    /\ Bound("a") /\ Bound("b") /\ Bound("c")
    /\ DictKeys(DocOf("a")) = {"w", "j"}
    /\ IsEq("a", "b") /\ IsEq("b", "c")
    /\ ~IsEq("a", DEFAULT)
    /\ ret.op = "__eq__" /\ ret.self = "a" /\ ret.other = "c"
    /\ ret.val = PyTrue

====
